---------------------------- MODULE Spec2Model ----------------------------
(***************************************************************************)
(* browser-geo-tz: init / find / findImpl of src/src/find.ts (the later    *)
(* of the two versions held in that file, lines 167-381).                  *)
(*                                                                         *)
(* Spec is one instance returned by init with NumCalls find calls on it;   *)
(* SpecMalformed gives it index documents the builder never writes,        *)
(* SpecDescent points on the midlines, and SpecInstances has NumInsts      *)
(* instances and the top-level find.                                       *)
(* A find call runs synchronously from its start to its                    *)
(* first await (the index), from there to its second await (the geometry   *)
(* range) or its return, and from there to its return: each of these is    *)
(* one action.  Numbers are exact: a coordinate is an integer count of     *)
(* 0.0001 / 2^MaxSteps degrees, so that every midpoint the descent         *)
(* computes within MaxSteps steps is an integer.                           *)
(***************************************************************************)
EXTENDS Integers, Sequences, FiniteSets, TLC

(* ------------------------------ bounds -------------------------------- *)

\* find calls issued on the instance
NumCalls == 2

\* descent steps (iterations of the while loop) one find may take in the model
MaxSteps == 3

\* instances made by calling init()
NumInsts == 2

(* ------------------------------ numbers ------------------------------- *)

\* the value of a NaN or undefined operand: every relational comparison
\* with it is false
NaN == 2000000000

RECURSIVE Pow2(_)
Pow2(n) == IF n = 0 THEN 1 ELSE 2 * Pow2(n - 1)

\* units in 0.0001 degree
E4 == Pow2(MaxSteps)

\* d whole degrees
Deg(d) == d * 10000 * E4

\* d tenths of a degree
Tenth(d) == d * 1000 * E4

\* 89.9999 and 179.9999
EdgeLat == 899999 * E4
EdgeLon == 1799999 * E4

isNaN(x) == x = NaN

\* JavaScript's >, <, >=, <= on numbers (false when an operand is NaN)
JsGt(x, y) == x # NaN /\ y # NaN /\ x > y
JsLt(x, y) == x # NaN /\ y # NaN /\ x < y
JsGe(x, y) == x # NaN /\ y # NaN /\ x >= y
JsLe(x, y) == x # NaN /\ y # NaN /\ x <= y

\* The latitudes and longitudes a caller passes: in their domains (the
\* pole, a latitude between 89.9999 and 90, an inner one, the boundaries)
\* and outside them (NaN, too large, too small).
ValidLats == {Deg(90), EdgeLat + (E4 \div 2), Deg(10), Deg(-90)}
BadLats   == {NaN, Deg(91), Deg(-91)}
ValidLons == {Deg(180), Deg(-180), Deg(10)}
BadLons   == {NaN, Deg(181), Deg(-181)}

\* The arguments << lat, lon >> of a call: every valid latitude with every
\* valid longitude; every invalid latitude with a valid and an invalid
\* longitude; every invalid longitude with the pole and an inner latitude.
Inputs ==
  (ValidLats \X ValidLons) \cup (BadLats \X {Deg(10), NaN})
    \cup ({Deg(90), Deg(10)} \X BadLons)

(* --------------------------- ocean zones ------------------------------ *)

ZoneNames ==
  << "Etc/GMT-12", "Etc/GMT-11", "Etc/GMT-10", "Etc/GMT-9", "Etc/GMT-8",
     "Etc/GMT-7", "Etc/GMT-6", "Etc/GMT-5", "Etc/GMT-4", "Etc/GMT-3",
     "Etc/GMT-2", "Etc/GMT-1", "Etc/GMT", "Etc/GMT+1", "Etc/GMT+2",
     "Etc/GMT+3", "Etc/GMT+4", "Etc/GMT+5", "Etc/GMT+6", "Etc/GMT+7",
     "Etc/GMT+8", "Etc/GMT+9", "Etc/GMT+10", "Etc/GMT+11", "Etc/GMT+12" >>

Max(x, y) == IF x >= y THEN x ELSE y
Min(x, y) == IF x <= y THEN x ELSE y

\* the ocean zone table: 15-degree bands centred on the multiples of 15,
\* cut at +/-180, listed from east to west
oceanZones ==
  [i \in 1..Len(ZoneNames) |->
     [tzid  |-> ZoneNames[i],
      left  |-> Max(Deg(-180), Tenth((13 - i) * 150 - 75)),
      right |-> Min(Deg(180), Tenth((13 - i) * 150 + 75))]]

\* the tzid of every band whose [left, right] contains lon, in table order
getTimezoneAtSea(lon) ==
  LET hit == SelectSeq(oceanZones, LAMBDA z : z.left <= lon /\ z.right >= lon)
  IN  [i \in 1..Len(hit) |-> hit[i].tzid]

(* ---------------------- index document values ------------------------- *)

Quads == {"a", "b", "c", "d"}

\* an object with none of the keys a, b, c, d (0: the key is absent)
NoKids == [q \in Quads |-> 0]

\* A value of the index document as findImpl reads it: its typeof, its
\* truthiness, its pos, len and length properties (NaN: undefined), the
\* elements of an array, and the node ids under its keys a, b, c, d.
Undefined ==
  [typeof |-> "undefined", truthy |-> FALSE, pos |-> NaN, len |-> NaN,
   length |-> NaN, items |-> << >>, kids |-> NoKids]

\* { a: ..., b: ..., c: ..., d: ... }
Inner(kids) ==
  [typeof |-> "object", truthy |-> TRUE, pos |-> NaN, len |-> NaN,
   length |-> NaN, items |-> << >>, kids |-> kids]

\* { pos: p, len: l }
GeoLeaf(p, l) ==
  [typeof |-> "object", truthy |-> TRUE, pos |-> p, len |-> l,
   length |-> NaN, items |-> << >>, kids |-> NoKids]

\* [i1, ..., ik]
IdList(items) ==
  [typeof |-> "object", truthy |-> TRUE, pos |-> NaN, len |-> NaN,
   length |-> Len(items), items |-> items, kids |-> NoKids]

\* a number
Num(n) ==
  [typeof |-> "number", truthy |-> n # 0, pos |-> NaN, len |-> NaN,
   length |-> NaN, items |-> << >>, kids |-> NoKids]

\* true or false
Bool(b) ==
  [typeof |-> "boolean", truthy |-> b, pos |-> NaN, len |-> NaN,
   length |-> NaN, items |-> << >>, kids |-> NoKids]

\* a string of n characters
Str(n) ==
  [typeof |-> "string", truthy |-> n # 0, pos |-> NaN, len |-> NaN,
   length |-> n, items |-> << >>, kids |-> NoKids]

Kids(a, b, c, d) == [q \in Quads |-> CASE q = "a" -> a [] q = "b" -> b
                                        [] q = "c" -> c [] q = "d" -> d]

\* The index documents the index provider may answer with:
\* { lookup, timezones }, the nodes of lookup numbered from the root.
\* The first two are what the index builder writes; the others hold
\* children it never writes: a number, true, a string and an empty list;
\* { pos, len: 0 }, { pos: -1, len }, false and a node that is its own
\* child; leaves whose bytes are a bare geometry or do not decode.
IndexDocs ==
  << [lookup    |-> 1,
      nodes     |-> << Inner(Kids(2, 0, 3, 4)),
                       Inner(Kids(5, 6, 0, 7)),
                       IdList(<< 2, 1, 2 >>),
                       GeoLeaf(0, 10),
                       GeoLeaf(10, 5),
                       IdList(<< 3 >>),
                       GeoLeaf(15, 7) >>,
      timezones |-> << "America/Los_Angeles", "America/New_York",
                       "Asia/Tokyo", "Europe/London" >>],
     [lookup    |-> 1,
      nodes     |-> << Inner(Kids(2, 3, 0, 4)),
                       GeoLeaf(22, 3),
                       IdList(<< 0 >>),
                       GeoLeaf(0, 10) >>,
      timezones |-> << "America/Indiana/Tell_City" >>],
     [lookup    |-> 1,
      nodes     |-> << Inner(Kids(2, 3, 4, 5)),
                       Num(5),
                       Bool(TRUE),
                       Str(1),
                       IdList(<< >>) >>,
      timezones |-> << "Europe/Paris" >>],
     [lookup    |-> 1,
      nodes     |-> << Inner(Kids(2, 3, 4, 5)),
                       GeoLeaf(0, 0),
                       GeoLeaf(-1, 5),
                       Bool(FALSE),
                       Inner(Kids(5, 5, 5, 5)) >>,
      timezones |-> << "Europe/Paris" >>],
     [lookup    |-> 1,
      nodes     |-> << Inner(Kids(2, 3, 0, 4)),
                       GeoLeaf(25, 2),
                       GeoLeaf(30, 1),
                       IdList(<< 0 >>) >>,
      timezones |-> << "Europe/Paris" >>] >>

\* the documents the index builder writes
DocIds == {1, 2}

\* the documents with children the index builder never writes
MalformedDocIds == DOMAIN IndexDocs \ DocIds

\* the value of node id n of document d (0: undefined)
NodeAt(d, n) == IF n = 0 THEN Undefined ELSE IndexDocs[d].nodes[n]

\* what an array element or a property that is not there reads as
UndefinedEntry == "<undefined>"

\* TimezoneAt reading the table from 1
TimezoneAtFromOne(d, idx) ==
  IF idx \in DOMAIN IndexDocs[d].timezones
    THEN IndexDocs[d].timezones[idx]
    ELSE UndefinedEntry

\* timezones[idx], the array indexed from 0
TimezoneAt(d, idx) ==
  IF idx + 1 \in DOMAIN IndexDocs[d].timezones
    THEN IndexDocs[d].timezones[idx + 1]
    ELSE UndefinedEntry

(* -------------------------- geometry store ---------------------------- *)

\* a polygon, as the set of points inside() finds in it: the rectangle
\* [s, n] x [w, e], its boundary included
Rect(s, n, w, e) == [s |-> s, n |-> n, w |-> w, e |-> e]

\* a decoded feature: whether it has a properties object, that object's
\* tzid (UndefinedEntry when it has none), and its polygon
Feat(hasProps, tzid, region) ==
  [properties |-> hasProps, tzid |-> tzid, region |-> region]

\* The bytes of the geometry store in the range [start, end], named by the
\* slice they are; a range that is no leaf's slice gives bytes that do not
\* decode.
BufSlice(start, end) ==
  CASE start = 0  /\ end = 9  -> "slice0"
    [] start = 10 /\ end = 14 -> "slice10"
    [] start = 15 /\ end = 21 -> "slice15"
    [] start = 22 /\ end = 24 -> "slice22"
    [] start = 25 /\ end = 26 -> "slice25"
    [] OTHER                  -> "garbage"

\* decode(new Pbf(bufSlice)): the GeoJSON object (a feature collection, a
\* feature or a bare geometry), or "throw" when the decoder fails
decode(bufSlice) ==
  CASE bufSlice = "slice0" ->
         [type |-> "FeatureCollection",
          features |->
            << Feat(TRUE, "Antarctica/Troll",
                    Rect(Deg(-90), Deg(0), Deg(0), Deg(180))),
               Feat(TRUE, "Antarctica/Vostok",
                    Rect(Deg(-90), Deg(0), Deg(100), EdgeLon)),
               Feat(TRUE, "Africa/Johannesburg",
                    Rect(Deg(-40), Deg(-20), Deg(10), Deg(40))),
               Feat(TRUE, "Antarctica/McMurdo",
                    Rect(-EdgeLat, Deg(-60), Deg(-10), Deg(180))) >>]
    [] bufSlice = "slice10" ->
         [type |-> "Feature",
          features |->
            << Feat(TRUE, "Asia/Anadyr",
                    Rect(Deg(45), EdgeLat, Deg(90), EdgeLon)) >>]
    [] bufSlice = "slice15" ->
         [type |-> "FeatureCollection",
          features |->
            << Feat(TRUE, "Asia/Kamchatka",
                    Rect(Deg(50), Deg(60), Deg(150), Deg(170))),
               Feat(TRUE, "Pacific/Tarawa",
                    Rect(Deg(0), Deg(20), Deg(170), EdgeLon)),
               Feat(TRUE, UndefinedEntry,
                    Rect(Deg(0), Deg(20), Deg(170), Deg(180))),
               Feat(FALSE, UndefinedEntry,
                    Rect(Deg(0), Deg(20), Deg(170), Deg(180))) >>]
    [] bufSlice = "slice22" ->
         [type |-> "FeatureCollection",
          features |->
            << Feat(TRUE, "Asia/Tokyo",
                    Rect(Deg(0), Deg(20), Deg(0), Deg(20))) >>]
    [] bufSlice = "slice25" -> [type |-> "Point", features |-> << >>]
    [] OTHER -> [type |-> "throw", features |-> << >>]

\* inside(pt, feature): pt is in the feature's polygon
inside(pt, feature) ==
  /\ feature.region.s <= pt.lat /\ pt.lat <= feature.region.n
  /\ feature.region.w <= pt.lon /\ pt.lon <= feature.region.e

(* ------------------------------ findImpl ------------------------------ *)

\* ClampLat leaving the latitude as passed
ClampLatNone(lat) == lat

\* "fix edges of the world"
ClampLat(lat) ==
  IF lat >= EdgeLat THEN EdgeLat
  ELSE IF lat <= -EdgeLat THEN -EdgeLat
  ELSE lat

ClampLon(lon) ==
  IF lon >= EdgeLon THEN EdgeLon
  ELSE IF lon <= -EdgeLon THEN -EdgeLon
  ELSE lon

\* point([lon, lat])
point(lon, lat) == [lat |-> lat, lon |-> lon]

InitialQuadData ==
  [top |-> EdgeLat, bottom |-> -EdgeLat, left |-> -EdgeLon, right |-> EdgeLon,
   midLat |-> 0, midLon |-> 0]

\* NextQuad with a point on a midline going south and west (> for >=,
\* <= for <)
NextQuadTiesSouthWest(quadData, lat, lon) ==
  IF lat > quadData.midLat /\ lon > quadData.midLon THEN "a"
  ELSE IF lat > quadData.midLat /\ lon <= quadData.midLon THEN "b"
  ELSE IF lat <= quadData.midLat /\ lon <= quadData.midLon THEN "c"
  ELSE "d"

\* "calculate next quadtree position"
NextQuad(quadData, lat, lon) ==
  IF lat >= quadData.midLat /\ lon >= quadData.midLon THEN "a"
  ELSE IF lat >= quadData.midLat /\ lon < quadData.midLon THEN "b"
  ELSE IF lat < quadData.midLat /\ lon < quadData.midLon THEN "c"
  ELSE "d"

\* the assignments to quadData that go with the quadrant chosen
Shrink(quadData, nextQuad) ==
  CASE nextQuad = "a" ->
         [quadData EXCEPT !.bottom = quadData.midLat, !.left = quadData.midLon]
    [] nextQuad = "b" ->
         [quadData EXCEPT !.bottom = quadData.midLat, !.right = quadData.midLon]
    [] nextQuad = "c" ->
         [quadData EXCEPT !.top = quadData.midLat, !.right = quadData.midLon]
    [] nextQuad = "d" ->
         [quadData EXCEPT !.top = quadData.midLat, !.left = quadData.midLon]

\* "calculate next quadtree depth data"
Recompute(quadData) ==
  [quadData EXCEPT !.midLat = (quadData.top + quadData.bottom) \div 2,
                   !.midLon = (quadData.left + quadData.right) \div 2]

\* Classify that takes an absent child for a malformed index
ClassifyEmptyThrows(node) ==
  IF ~node.truthy THEN "throw"
  ELSE IF JsGe(node.pos, 0) /\ node.len # NaN /\ node.len # 0 THEN "geo"
  ELSE IF JsGt(node.length, 0)
    THEN (IF node.typeof = "object" THEN "exact" ELSE "typeerror")
  ELSE IF node.typeof # "object" THEN "throw"
  ELSE "descend"

\* "analyze result of current depth": the branch taken for the child
\*   sea       !curTzData
\*   geo       curTzData.pos >= 0 && curTzData.len
\*   exact     curTzData.length > 0
\*   typeerror curTzData.length > 0 on a value that has no map method
\*   throw     typeof curTzData !== "object"
\*   descend   none of them: the loop goes on
Classify(node) ==
  IF ~node.truthy THEN "sea"
  ELSE IF JsGe(node.pos, 0) /\ node.len # NaN /\ node.len # 0 THEN "geo"
  ELSE IF JsGt(node.length, 0)
    THEN (IF node.typeof = "object" THEN "exact" ELSE "typeerror")
  ELSE IF node.typeof # "object" THEN "throw"
  ELSE "descend"

\* The while loop, from curTzData = node cur of document d with box
\* quadData, for at most fuel iterations: how it ends (a branch of
\* Classify; typeerror too when curTzData is undefined; hang when the
\* iterations run out), and quadData, curTzData and quadPos as they are then.
\* steps records the iterations: quadData at the start of each (box), the
\* quadrant chosen, and quadData at its end (next).
RECURSIVE Descend(_, _, _, _, _, _, _)
Descend(d, lat, lon, quadData, cur, quadPos, fuel) ==
  IF cur = 0
    THEN [outcome |-> "typeerror", quadData |-> quadData, curTzData |-> cur,
          quadPos |-> quadPos, steps |-> << >>]
  ELSE IF fuel = 0
    THEN [outcome |-> "hang", quadData |-> quadData, curTzData |-> cur,
          quadPos |-> quadPos, steps |-> << >>]
  ELSE
    LET nextQuad == NextQuad(quadData, lat, lon)
        shrunk   == Shrink(quadData, nextQuad)
        child    == NodeAt(d, cur).kids[nextQuad]
        branch   == Classify(NodeAt(d, child))
        step(next) == [box |-> quadData, nextQuad |-> nextQuad, next |-> next]
    IN  IF branch = "descend"
          THEN LET rest == Descend(d, lat, lon, Recompute(shrunk), child,
                                   Append(quadPos, nextQuad), fuel - 1)
               IN  [rest EXCEPT !.steps = << step(Recompute(shrunk)) >> \o @]
          ELSE [outcome |-> branch, quadData |-> shrunk, curTzData |-> child,
                quadPos |-> Append(quadPos, nextQuad),
                steps |-> << step(shrunk) >>]

\* GeoRange with an exclusive end (pos + len)
GeoRangeEndExclusive(node) == << node.pos, node.pos + node.len >>

\* the range geoData is asked for at a geometry leaf
GeoRange(node) == << node.pos, node.pos + node.len - 1 >>

\* curTzData.map((idx) => timezones[idx])
ExactMatch(d, node) ==
  [i \in 1..Len(node.items) |-> TimezoneAt(d, node.items[i])]

\* the features the loops over geoJson visit, in order
FeaturesOf(geoJson) ==
  IF geoJson.type \in {"FeatureCollection", "Feature"}
    THEN geoJson.features
    ELSE << >>

\* whether the feature's tzid is pushed
Pushes(pt, feature) == inside(pt, feature) /\ feature.properties

\* Containing that stops at the first feature containing the point
RECURSIVE ContainingFirstOnly(_, _)
ContainingFirstOnly(pt, features) ==
  IF features = << >> THEN << >>
  ELSE IF Pushes(pt, Head(features))
    THEN << Head(features).tzid >>
    ELSE ContainingFirstOnly(pt, Tail(features))

\* timezonesContainingPoint after the loops
RECURSIVE Containing(_, _)
Containing(pt, features) ==
  IF features = << >> THEN << >>
  ELSE IF Pushes(pt, Head(features))
    THEN << Head(features).tzid >> \o Containing(pt, Tail(features))
    ELSE Containing(pt, Tail(features))

\* SeaLon taking the clamped longitude
SeaLonClamped(originalLon, lon) == lon

\* the longitude the ocean fallback is computed from
SeaLon(originalLon, lon) == originalLon

(* ------------------------------- state -------------------------------- *)

VARIABLES
  tzMode,         \* init's tzDataSource: "url" (a string) or "function"
  tzDataPromise,  \* init's tzDataPromise, one for each instance: 0 (null)
                  \* or a promise of promises
  promises,       \* the promises the index provider has returned, one per
                  \* invocation, in order
  calls           \* the find calls: position, arguments, locals, result

vars == << tzMode, tzDataPromise, promises, calls >>

Calls == 1..NumCalls

\* The instances: those init() was called for with a tzDataSource of kind
\* tzMode, and the one the top-level find(lat, lon) makes with init() for
\* call c, whose tzDataSource is the default URL.
Insts             == 1..NumInsts
TopLevelInst(c)   == NumInsts + c
InstIds           == 1..(NumInsts + NumCalls)
ModeOf(i)         == IF i \in Insts THEN tzMode ELSE "url"

\* Closure with one tzDataPromise for the module
ClosureOfModule(i) == 1

\* the tzDataPromise the tzData wrapper of instance i closes over: the one
\* its own call of init declared
Closure(i) == i

NoRet    == [kind |-> "none", value |-> << >>, error |-> ""]
Value(v) == [kind |-> "value", value |-> v, error |-> ""]
Throw(e) == [kind |-> "error", value |-> << >>, error |-> e]

\* a call not made yet.  inst is the instance it is made on (0: none yet);
\* argLat, argLon are the arguments as passed; lat,
\* lon the parameters as reassigned; tzInvoked, geoReq and seaArg record the
\* call's invocations of the index provider (their number), of the geometry
\* provider (their ranges) and of getTimezoneAtSea (their arguments);
\* geoRes records how the geometry provider answered each request ("bytes"
\* or "error"); steps records the iterations of the while loop.
IdleCall ==
  [pc |-> "idle", argLat |-> 0, argLon |-> 0, lat |-> 0, lon |-> 0,
   inst |-> 0, originalLon |-> 0, pt |-> point(0, 0),
   quadData |-> InitialQuadData,
   quadPos |-> << >>, steps |-> << >>, curTzData |-> 0,
   tzDataResponse |-> 0, tzPromise |-> 0,
   tzInvoked |-> 0, geoReq |-> << >>, geoRes |-> << >>, seaArg |-> << >>,
   ret |-> NoRet]

Pending      == [state |-> "pending", doc |-> 0]
Fulfilled(d) == [state |-> "fulfilled", doc |-> d]
Rejected     == [state |-> "rejected", doc |-> 0]

Init ==
  /\ tzMode \in {"url", "function"}
  /\ tzDataPromise = [i \in InstIds |-> 0]
  /\ promises = << >>
  /\ calls = [c \in Calls |-> IdleCall]

\* a descent that never leaves the while loop keeps the thread: nothing
\* else runs
Running == \A c \in Calls : calls[c].pc # "hang"

(* ------------------------------ actions ------------------------------- *)

\* InvalidLat rejecting the boundary latitudes (>= for >, <= for <)
InvalidLatAtBoundary(lat) ==
  isNaN(lat) \/ JsGe(lat, Deg(90)) \/ JsLe(lat, Deg(-90))

InvalidLat(lat) == isNaN(lat) \/ JsGt(lat, Deg(90)) \/ JsLt(lat, Deg(-90))
InvalidLon(lon) == isNaN(lon) \/ JsGt(lon, Deg(180)) \/ JsLt(lon, Deg(-180))

\* NorthPole taken for every latitude the clamp moves (>= 89.9999)
NorthPoleFromEdge(lat) == lat >= EdgeLat

\* "North Pole should return all ocean zones"
NorthPole(lat) == lat = Deg(90)

\* oceanZones.map((zone) => zone.tzid)
AllOceanZones == [i \in 1..Len(oceanZones) |-> oceanZones[i].tzid]

\* whether a call of tzData() invokes the index provider: the injected
\* function is tzData itself; the URL's wrapper fetches only when
\* tzDataPromise is null
TzDataInvokes(mode, memo) == mode = "function" \/ memo = 0

\* findImpl from its start to "await tzData()": the call's record when it
\* throws or returns before that, or waits on promise p
Start(call, la, lo, p, invoked) ==
  LET arg == [call EXCEPT !.argLat = la, !.argLon = lo, !.lat = la,
                          !.lon = lo, !.originalLon = lo]
  IN  IF InvalidLat(la)
        THEN [arg EXCEPT !.pc = "done", !.ret = Throw("Invalid latitude")]
      ELSE IF InvalidLon(lo)
        THEN [arg EXCEPT !.pc = "done", !.ret = Throw("Invalid longitude")]
      ELSE IF NorthPole(la)
        THEN [arg EXCEPT !.pc = "done", !.ret = Value(AllOceanZones)]
      ELSE [arg EXCEPT !.pc = "awaitIndex",
                       !.lat = ClampLat(la), !.lon = ClampLon(lo),
                       !.pt = point(ClampLon(lo), ClampLat(la)),
                       !.quadData = InitialQuadData,
                       !.tzPromise = p,
                       !.tzInvoked = IF invoked THEN 1 ELSE 0]

\* the ocean fallback: return getTimezoneAtSea(originalLon)
AtSea(call) ==
  LET arg == SeaLon(call.originalLon, call.lon)
  IN  [call EXCEPT !.pc = "done", !.seaArg = Append(@, arg),
                   !.ret = Value(getTimezoneAtSea(arg))]

\* findImpl from the index document d it awaited to its next await, its
\* return or its throw
AfterIndex(call, d) ==
  LET r    == Descend(d, call.lat, call.lon, call.quadData,
                      IndexDocs[d].lookup, call.quadPos, MaxSteps)
      at   == [call EXCEPT !.tzDataResponse = d, !.quadData = r.quadData,
                           !.curTzData = r.curTzData, !.quadPos = r.quadPos,
                           !.steps = r.steps]
      node == NodeAt(d, r.curTzData)
  IN  CASE r.outcome = "sea"   -> AtSea(at)
        [] r.outcome = "geo"   ->
             [at EXCEPT !.pc = "awaitGeo", !.geoReq = Append(@, GeoRange(node))]
        [] r.outcome = "exact" ->
             [at EXCEPT !.pc = "done", !.ret = Value(ExactMatch(d, node))]
        [] r.outcome = "throw" ->
             [at EXCEPT !.pc = "done", !.ret = Throw("Unexpected data type")]
        [] r.outcome = "typeerror" ->
             [at EXCEPT !.pc = "done", !.ret = Throw("TypeError")]
        [] r.outcome = "hang"  -> [at EXCEPT !.pc = "hang"]

\* findImpl from the bytes it awaited to its return or its throw
AfterGeo(call) ==
  LET range   == call.geoReq[Len(call.geoReq)]
      geoJson == decode(BufSlice(range[1], range[2]))
      timezonesContainingPoint == Containing(call.pt, FeaturesOf(geoJson))
  IN  IF geoJson.type = "throw"
        THEN [call EXCEPT !.pc = "done", !.ret = Throw("DecodeError")]
      ELSE IF Len(timezonesContainingPoint) > 0
        THEN [call EXCEPT !.pc = "done",
                          !.ret = Value(timezonesContainingPoint)]
      ELSE AtSea(call)

\* find(la, lo) is called on instance i.  Calls take the slots in order.
FindOn(c, i, la, lo) ==
  LET memo    == tzDataPromise[Closure(i)]
      invoked == ~InvalidLat(la) /\ ~InvalidLon(lo) /\ ~NorthPole(la)
                   /\ TzDataInvokes(ModeOf(i), memo)
      p       == IF invoked THEN Len(promises) + 1 ELSE memo
  IN  /\ Running
      /\ calls[c].pc = "idle"
      /\ IF c = 1 THEN TRUE ELSE calls[c - 1].pc # "idle"
      /\ calls' = [calls EXCEPT ![c] =
                     Start([@ EXCEPT !.inst = i], la, lo, p, invoked)]
      /\ promises' = IF invoked THEN Append(promises, Pending) ELSE promises
      /\ tzDataPromise' = IF invoked /\ ModeOf(i) = "url"
                            THEN [tzDataPromise EXCEPT ![Closure(i)] = p]
                            ELSE tzDataPromise
      /\ UNCHANGED tzMode

\* find(la, lo) is called on the first instance
Find(c, la, lo) == FindOn(c, 1, la, lo)

\* the top-level find(la, lo): init().find(la, lo)
TopLevelFind(c, la, lo) == FindOn(c, TopLevelInst(c), la, lo)

\* Resumed throwing an error of findImpl's own in place of the provider's
ResumedWrapsError(call, pr) ==
  IF pr.state = "rejected"
    THEN [call EXCEPT !.pc = "done", !.ret = Throw("Unexpected data type")]
    ELSE AfterIndex(call, pr.doc)

\* Resumed with a memoized promise that gives no document to the calls that
\* did not start the fetch: they fail reading its lookup
ResumedMemoWithoutLookup(call, pr) ==
  IF pr.state = "rejected"
    THEN [call EXCEPT !.pc = "done", !.ret = Throw("TransportError")]
  ELSE IF call.tzInvoked = 0
    THEN [call EXCEPT !.pc = "done", !.tzDataResponse = pr.doc,
                      !.ret = Throw("TypeError")]
  ELSE AfterIndex(call, pr.doc)

\* call after "await tzData()" has given it the outcome of promise pr
Resumed(call, pr) ==
  IF pr.state = "rejected"
    THEN [call EXCEPT !.pc = "done", !.ret = Throw("TransportError")]
    ELSE AfterIndex(call, pr.doc)

\* Settled with lat, lon and pt shared by the calls (variables of the
\* module, not of findImpl): every call waiting on p goes on with those the
\* last of them assigned
SettledSharedLocals(p, pr) ==
  LET waiting == {c \in Calls :
                    calls[c].pc = "awaitIndex" /\ calls[c].tzPromise = p}
      last    == CHOOSE w \in waiting : \A v \in waiting : v <= w
  IN  [c \in Calls |->
         IF c \in waiting
           THEN Resumed([calls[c] EXCEPT !.lat = calls[last].lat,
                                         !.lon = calls[last].lon,
                                         !.pt = calls[last].pt], pr)
           ELSE calls[c]]

\* the calls once promise p is settled as pr: every call waiting on p goes
\* on, in the same run of the microtask queue
Settled(p, pr) ==
  [c \in Calls |->
     IF calls[c].pc = "awaitIndex" /\ calls[c].tzPromise = p
       THEN Resumed(calls[c], pr)
       ELSE calls[c]]

\* the index provider's promise p is fulfilled with document d
IndexFulfils(p, d) ==
  /\ Running
  /\ promises[p].state = "pending"
  /\ promises' = [promises EXCEPT ![p] = Fulfilled(d)]
  /\ calls' = Settled(p, Fulfilled(d))
  /\ UNCHANGED << tzMode, tzDataPromise >>

\* the index provider's promise p is rejected
IndexRejects(p) ==
  /\ Running
  /\ promises[p].state = "pending"
  /\ promises' = [promises EXCEPT ![p] = Rejected]
  /\ calls' = Settled(p, Rejected)
  /\ UNCHANGED << tzMode, tzDataPromise >>

\* call c, which awaited a promise settled before, goes on after
\* "await tzData()"
ResumeIndex(c) ==
  /\ Running
  /\ calls[c].pc = "awaitIndex"
  /\ promises[calls[c].tzPromise].state # "pending"
  /\ calls' = [calls EXCEPT ![c] = Resumed(@, promises[@.tzPromise])]
  /\ UNCHANGED << tzMode, tzDataPromise, promises >>

\* the geometry provider answers call c's request and the call goes on
GeoReturns(c) ==
  /\ Running
  /\ calls[c].pc = "awaitGeo"
  /\ calls' = [calls EXCEPT ![c] =
                 AfterGeo([@ EXCEPT !.geoRes = Append(@, "bytes")])]
  /\ UNCHANGED << tzMode, tzDataPromise, promises >>

\* the geometry provider fails call c's request
GeoFails(c) ==
  /\ Running
  /\ calls[c].pc = "awaitGeo"
  /\ calls' = [calls EXCEPT ![c] =
                 [@ EXCEPT !.pc = "done", !.geoRes = Append(@, "error"),
                           !.ret = Throw("TransportError")]]
  /\ UNCHANGED << tzMode, tzDataPromise, promises >>

Next ==
  \/ \E c \in Calls, in \in Inputs : Find(c, in[1], in[2])
  \/ \E p \in DOMAIN promises, d \in DocIds : IndexFulfils(p, d)
  \/ \E p \in DOMAIN promises : IndexRejects(p)
  \/ \E c \in Calls : ResumeIndex(c)
  \/ \E c \in Calls : GeoReturns(c)
  \/ \E c \in Calls : GeoFails(c)

Spec == Init /\ [][Next]_vars

\* one point in each quadrant of the root
QuadrantInputs ==
  { << Deg(10), Deg(10) >>, << Deg(10), Deg(-180) >>,
    << Deg(-90), Deg(-180) >>, << Deg(-90), Deg(10) >> }

\* the instance with an index provider that answers with a document the
\* index builder never writes
NextMalformed ==
  \/ \E c \in Calls, in \in QuadrantInputs : Find(c, in[1], in[2])
  \/ \E p \in DOMAIN promises, d \in MalformedDocIds : IndexFulfils(p, d)
  \/ \E p \in DOMAIN promises : IndexRejects(p)
  \/ \E c \in Calls : ResumeIndex(c)
  \/ \E c \in Calls : GeoReturns(c)
  \/ \E c \in Calls : GeoFails(c)

SpecMalformed == Init /\ [][NextMalformed]_vars

\* a point of an id list and a point of a geometry leaf
InstanceInputs == { << Deg(-90), Deg(-180) >>, << Deg(-90), Deg(10) >> }

\* several instances and the top-level find
NextInstances ==
  \/ \E c \in Calls, i \in Insts, in \in InstanceInputs :
       FindOn(c, i, in[1], in[2])
  \/ \E c \in Calls, in \in InstanceInputs : TopLevelFind(c, in[1], in[2])
  \/ \E p \in DOMAIN promises, d \in DocIds : IndexFulfils(p, d)
  \/ \E p \in DOMAIN promises : IndexRejects(p)
  \/ \E c \in Calls : ResumeIndex(c)
  \/ \E c \in Calls : GeoReturns(c)
  \/ \E c \in Calls : GeoFails(c)

SpecInstances == Init /\ [][NextInstances]_vars

\* points on the midlines of the root and of its quadrant a, points at the
\* edges of the world, and a point past the last latitude of the dataset
DescentInputs ==
  { << 0, 0 >>, << 0, Deg(-10) >>, << Deg(-10), 0 >>,
    << EdgeLat \div 2, Deg(10) >>, << Deg(10), EdgeLon \div 2 >>,
    << Deg(-90), Deg(-180) >>, << EdgeLat + (E4 \div 2), Deg(180) >> }

\* the instance with calls for the points of DescentInputs
NextDescent ==
  \/ \E c \in Calls, in \in DescentInputs : Find(c, in[1], in[2])
  \/ \E p \in DOMAIN promises, d \in DocIds : IndexFulfils(p, d)
  \/ \E p \in DOMAIN promises : IndexRejects(p)
  \/ \E c \in Calls : ResumeIndex(c)
  \/ \E c \in Calls : GeoReturns(c)
  \/ \E c \in Calls : GeoFails(c)

SpecDescent == Init /\ [][NextDescent]_vars

(* ------------------------- what the claims read ------------------------ *)

\* call c has been made
Made(c) == calls[c].pc # "idle"

\* call c has returned or thrown
Done(c) == calls[c].pc = "done"

\* the arguments of call c are in their domains
ValidArgs(c) ==
  /\ calls[c].argLat # NaN /\ calls[c].argLat >= Deg(-90)
  /\ calls[c].argLat <= Deg(90)
  /\ calls[c].argLon # NaN /\ calls[c].argLon >= Deg(-180)
  /\ calls[c].argLon <= Deg(180)

\* call c went past "await tzData()" with an index document
HasIndex(c) == calls[c].pc \in {"awaitGeo", "done"} /\ calls[c].tzDataResponse # 0

\* the child call c's descent stopped at
Reached(c) == NodeAt(calls[c].tzDataResponse, calls[c].curTzData)

AtEmpty(c)   == HasIndex(c) /\ calls[c].curTzData = 0
AtGeoLeaf(c) == HasIndex(c) /\ Reached(c).pos # NaN /\ Reached(c).pos >= 0
                  /\ Reached(c).len # NaN /\ Reached(c).len >= 1
AtIdList(c)  == HasIndex(c) /\ ~AtGeoLeaf(c) /\ Reached(c).length # NaN
                  /\ Reached(c).length >= 1

\* the geometry provider answered call c
GeoAnswered(c) ==
  AtGeoLeaf(c) /\ Done(c) /\ calls[c].ret.error # "TransportError"

\* what the bytes of call c's leaf decode to
LeafJson(c) ==
  decode(BufSlice(Reached(c).pos, Reached(c).pos + Reached(c).len - 1))

\* the point of call c's arguments, clamped to the dataset's extent
ClampedPt(c) ==
  [lat |-> Max(-EdgeLat, Min(EdgeLat, calls[c].argLat)),
   lon |-> Max(-EdgeLon, Min(EdgeLon, calls[c].argLon))]

\* the features of call c's leaf that contain its clamped point, in decode
\* order
Matches(c) ==
  SelectSeq(LeafJson(c).features, LAMBDA f : inside(ClampedPt(c), f))

\* the ids of the bands whose longitude range contains lon, in table order
BandsContaining(lon) ==
  LET hit == SelectSeq([i \in 1..Len(ZoneNames) |-> i],
                       LAMBDA i : /\ oceanZones[i].left <= lon
                                  /\ lon <= oceanZones[i].right)
  IN  [k \in 1..Len(hit) |-> ZoneNames[hit[k]]]

(* ------------------------------- claims -------------------------------- *)

\* C1: the index provider is invoked at most once in the lifetime of one
\* bound instance, whatever find calls are made on it.
C1_IndexProviderInvokedAtMostOnce == Len(promises) <= 1

\* C2: all find calls of one instance that waited on the index observe the
\* same outcome of the index fetch: the same document, or the same failure.
C2_WaitersObserveSameOutcome ==
  \A c1, c2 \in Calls :
    (/\ calls[c1].tzPromise # 0 /\ calls[c1].pc \in {"awaitGeo", "done"}
     /\ calls[c2].tzPromise # 0 /\ calls[c2].pc \in {"awaitGeo", "done"})
    => calls[c1].tzDataResponse = calls[c2].tzDataResponse

\* C3: a call whose lat is NaN, > 90 or < -90, or whose lon is NaN, > 180 or
\* < -180, throws the invalid-coordinate error and invokes neither provider;
\* a call with lat in [-90, 90] and lon in [-180, 180] is not rejected.
C3_InvalidCoordinateRejectedBeforeIO ==
  \A c \in Calls :
    Made(c) =>
      IF ValidArgs(c)
        THEN calls[c].ret.error \notin {"Invalid latitude", "Invalid longitude"}
        ELSE /\ Done(c)
             /\ calls[c].ret.kind = "error"
             /\ calls[c].ret.error \in {"Invalid latitude", "Invalid longitude"}
             /\ calls[c].tzInvoked = 0
             /\ calls[c].tzPromise = 0
             /\ calls[c].geoReq = << >>
             /\ Len(promises) <= Cardinality({k \in Calls \ {c} : Made(k)})

C3_Witness ==
  \E c1, c2 \in Calls :
    /\ Done(c1) /\ calls[c1].argLat = Deg(10) /\ calls[c1].argLon = NaN
    /\ calls[c1].ret.error = "Invalid longitude"
    /\ Done(c2) /\ calls[c2].argLat = Deg(-90) /\ calls[c2].argLon = Deg(180)
    /\ calls[c2].ret.kind = "value"

\* C4: find(90, x) with a valid x returns the tzid of every entry of the
\* ocean zone table in table order, the same list for every x, and invokes
\* neither provider; a valid call with lat < 90 waits on the index instead
\* and, when it returns a list, has descended it.
C4_NorthPoleReturnsAllOceanZones ==
  \A c \in Calls :
    (Made(c) /\ ValidArgs(c)) =>
      IF calls[c].argLat = Deg(90)
        THEN /\ Done(c)
             /\ calls[c].ret = Value(ZoneNames)
             /\ calls[c].tzInvoked = 0
             /\ calls[c].tzPromise = 0
             /\ calls[c].geoReq = << >>
        ELSE /\ calls[c].tzPromise \in DOMAIN promises
             /\ (Done(c) /\ calls[c].ret.kind = "value")
                  => (HasIndex(c) /\ Len(calls[c].quadPos) >= 1)

C4_Witness ==
  \E c1, c2 \in Calls :
    /\ Done(c1) /\ calls[c1].argLat = Deg(90) /\ calls[c1].argLon = Deg(-180)
    /\ Len(calls[c1].ret.value) = Len(oceanZones)
    /\ Done(c2) /\ calls[c2].argLat > EdgeLat /\ calls[c2].argLat < Deg(90)
    /\ calls[c2].ret.kind = "value" /\ Len(calls[c2].quadPos) = 2

\* C5: a call with lat in [-90, 90] and lon in [-180, 180] whose providers
\* answer terminates and returns a non-empty list in which every element is
\* a timezone id, never an undefined entry.
C5_ValidCallReturnsNonEmptyIds ==
  \A c \in Calls :
    /\ calls[c].pc # "hang"
    /\ (Done(c) /\ ValidArgs(c) /\ calls[c].ret.error # "TransportError")
         => /\ calls[c].ret.kind = "value"
            /\ Len(calls[c].ret.value) >= 1
            /\ \A i \in DOMAIN calls[c].ret.value :
                 calls[c].ret.value[i] # UndefinedEntry

\* C6: a descent that reaches an absent child, or a geometry leaf none of
\* whose decoded features contains the point, throws nothing and returns
\* exactly the ocean fallback of the call's longitude; at an absent child
\* the geometry provider is not invoked.
C6_NoMatchFallsBackToOcean ==
  \A c \in Calls :
    /\ AtEmpty(c)
         => /\ Done(c)
            /\ calls[c].ret = Value(BandsContaining(calls[c].argLon))
            /\ calls[c].geoReq = << >>
    /\ (GeoAnswered(c) /\ LeafJson(c).type \in {"Feature", "FeatureCollection"}
          /\ Matches(c) = << >>)
         => calls[c].ret = Value(BandsContaining(calls[c].argLon))

C6_Witness ==
  \E c1, c2 \in Calls :
    /\ AtEmpty(c1) /\ calls[c1].ret.kind = "value"
    /\ Len(calls[c1].seaArg) = 1
    /\ GeoAnswered(c2) /\ Len(LeafJson(c2).features) >= 1
    /\ Matches(c2) = << >>
    /\ calls[c2].ret.kind = "value" /\ Len(calls[c2].seaArg) = 1

\* C7: every ocean fallback is computed from the longitude as the caller
\* passed it, not from the clamped one: beyond +/-179.9999 the descent and
\* the containment test use +/-179.9999, getTimezoneAtSea receives the
\* original value, and the result is the bands whose range contains it.
C7_FallbackUsesOriginalLongitude ==
  \A c \in Calls :
    calls[c].seaArg # << >> =>
      /\ calls[c].seaArg = << calls[c].argLon >>
      /\ calls[c].ret = Value(BandsContaining(calls[c].argLon))
      /\ calls[c].argLon > EdgeLon
           => (calls[c].lon = EdgeLon /\ calls[c].pt.lon = EdgeLon)
      /\ calls[c].argLon < -EdgeLon
           => (calls[c].lon = -EdgeLon /\ calls[c].pt.lon = -EdgeLon)

C7_Witness ==
  \E c1, c2 \in Calls :
    /\ Done(c1) /\ calls[c1].argLon = Deg(180) /\ calls[c1].lon = EdgeLon
    /\ calls[c1].seaArg = << Deg(180) >>
    /\ calls[c1].ret.value = << "Etc/GMT-12" >>
    /\ Done(c2) /\ calls[c2].argLon = Deg(-180) /\ calls[c2].lon = -EdgeLon
    /\ calls[c2].seaArg = << Deg(-180) >>

\* C8: a descent that reaches a list [i1, ..., ik] of indices, k >= 1,
\* returns exactly [timezones[i1], ..., timezones[ik]] of the document it
\* descended (same length, same order, duplicates kept) and does not invoke
\* the geometry provider.
C8_IdListMapsThroughTimezones ==
  \A c \in Calls :
    AtIdList(c) =>
      /\ Done(c)
      /\ calls[c].ret.kind = "value"
      /\ Len(calls[c].ret.value) = Len(Reached(c).items)
      /\ \A j \in DOMAIN Reached(c).items :
           calls[c].ret.value[j] =
             IndexDocs[calls[c].tzDataResponse].timezones[Reached(c).items[j] + 1]
      /\ calls[c].geoReq = << >>

C8_Witness ==
  \E c \in Calls :
    /\ AtIdList(c) /\ Reached(c).items = << 2, 1, 2 >>
    /\ calls[c].ret.value = << "Asia/Tokyo", "America/New_York", "Asia/Tokyo" >>

\* C9: a call whose descent reaches a geometry leaf {pos, len}, pos >= 0 and
\* len >= 1, invokes the geometry provider exactly once, with start = pos
\* and end = pos + len - 1, whatever other calls reached the same leaf; a
\* call that reached no geometry leaf does not invoke it.
C9_OneGeometryFetchPerLeafVisit ==
  \A c \in Calls :
    IF AtGeoLeaf(c)
      THEN calls[c].geoReq =
             << << Reached(c).pos, Reached(c).pos + Reached(c).len - 1 >> >>
      ELSE calls[c].geoReq = << >>

C9_Witness ==
  \E c1, c2 \in Calls :
    /\ c1 # c2
    /\ AtGeoLeaf(c1) /\ AtGeoLeaf(c2)
    /\ calls[c1].tzDataResponse = calls[c2].tzDataResponse
    /\ calls[c1].curTzData = calls[c2].curTzData
    /\ calls[c1].geoReq = << << 0, 9 >> >>
    /\ calls[c2].geoReq = << << 0, 9 >> >>

MatchedTzids(c) ==
  LET has == SelectSeq(Matches(c),
                       LAMBDA f : f.properties /\ f.tzid # UndefinedEntry)
  IN  [i \in DOMAIN has |-> has[i].tzid]

\* C11: a decoded feature without a tzid (no properties object, or a
\* properties object without the key) is skipped: it adds no element to the
\* result even when it contains the point, nothing is thrown, and when no
\* containing feature carries a tzid the call takes the ocean fallback.
C11_FeatureWithoutTzidSkipped ==
  \A c \in Calls :
    (GeoAnswered(c) /\ LeafJson(c).type \in {"Feature", "FeatureCollection"})
    => calls[c].ret =
         IF MatchedTzids(c) # << >>
           THEN Value(MatchedTzids(c))
           ELSE Value(BandsContaining(calls[c].argLon))

\* the node id a path of quadrant labels leads to from node n of document d
RECURSIVE NodeOnPath(_, _, _)
NodeOnPath(d, n, path) ==
  IF path = << >> THEN n
  ELSE NodeOnPath(d, NodeAt(d, n).kids[Head(path)], Tail(path))

\* the child call c selected at its k-th descent step
ChildAtStep(c, k) ==
  NodeAt(calls[c].tzDataResponse,
         NodeOnPath(calls[c].tzDataResponse,
                    IndexDocs[calls[c].tzDataResponse].lookup,
                    SubSeq(calls[c].quadPos, 1, k)))

\* the four kinds of node of a well-formed index
IsInner(node) ==
  /\ node.typeof = "object" /\ node.truthy
  /\ node.pos = NaN /\ node.len = NaN /\ node.length = NaN
IsGeometryLeaf(node) ==
  /\ node.typeof = "object" /\ node.pos # NaN /\ node.pos >= 0
  /\ node.len # NaN /\ node.len > 0
IsIdListLeaf(node) ==
  node.typeof = "object" /\ node.length # NaN /\ node.length > 0
IsEmpty(node) == node.typeof = "undefined"
WellFormedNode(node) ==
  IsInner(node) \/ IsGeometryLeaf(node) \/ IsIdListLeaf(node) \/ IsEmpty(node)

\* call c has left its wait for the index with a document
Descended(c) ==
  calls[c].pc \in {"awaitGeo", "done", "hang"} /\ calls[c].tzDataResponse # 0

\* C12: a call that selects, at any descent step, a child that is none of
\* Inner, GeometryLeaf, IdListLeaf and Empty fails with the malformed-index
\* error ("Unexpected data type"); it neither returns a list nor descends.
C12_MalformedChildFails ==
  \A c \in Calls :
    Descended(c) =>
      \A k \in 1..Len(calls[c].quadPos) :
        ~WellFormedNode(ChildAtStep(c, k))
        => calls[c].ret = Throw("Unexpected data type")

\* C13: a descent takes at most MaxSteps steps: a call whose path is still
\* on an Inner node after that many steps fails with the malformed-index
\* error, so no call stays in the loop.
C13_DescentStopsAtCeiling ==
  \A c \in Calls :
    Descended(c) =>
      /\ calls[c].pc # "hang"
      /\ (Len(calls[c].quadPos) >= MaxSteps /\ IsInner(Reached(c)))
         => calls[c].ret = Throw("Unexpected data type")

\* C15: when the bytes of a geometry leaf decode to neither a Feature nor a
\* FeatureCollection (the decoder fails, or gives another type), the call
\* fails with a decode error, which is not the malformed-index error; it
\* returns no list, the ocean fallback included.
C15_UndecodableLeafFails ==
  \A c \in Calls :
    (GeoAnswered(c) /\ LeafJson(c).type \notin {"Feature", "FeatureCollection"})
    => calls[c].ret = Throw("DecodeError")

\* the index provider failed call c
IndexFailed(c) ==
  /\ calls[c].tzPromise # 0 /\ calls[c].pc # "awaitIndex"
  /\ promises[calls[c].tzPromise].state = "rejected"

\* the geometry provider failed call c
GeoFailed(c) == \E i \in DOMAIN calls[c].geoRes : calls[c].geoRes[i] = "error"

\* C14: a call whose index fetch or geometry fetch fails ends with the
\* provider's error as it is, without invoking that provider a second time;
\* and a call ends with a provider's error only when its own index fetch or
\* its own geometry fetch failed: the failure of another call's geometry
\* fetch does not reach it.
C14_ProviderErrorPropagatedOnce ==
  \A c \in Calls :
    /\ IndexFailed(c)
       => /\ calls[c].ret = Throw("TransportError")
          /\ calls[c].tzInvoked <= 1 /\ calls[c].geoReq = << >>
    /\ GeoFailed(c)
       => /\ calls[c].ret = Throw("TransportError")
          /\ calls[c].tzInvoked <= 1 /\ Len(calls[c].geoReq) = 1
    /\ (Done(c) /\ calls[c].ret.error = "TransportError")
       => IndexFailed(c) \/ GeoFailed(c)

\* one call failed with the geometry provider's error, the index provider
\* failed another, and neither asked again
C14_Witness ==
  \E c1, c2 \in Calls :
    /\ GeoFailed(c1) /\ Done(c1) /\ calls[c1].ret = Throw("TransportError")
    /\ IndexFailed(c2) /\ calls[c2].tzInvoked = 1

\* call c as it ends when no other call is made: findImpl run on its
\* arguments with the answers the providers gave it
Alone(c) ==
  LET started == Start([IdleCall EXCEPT !.inst = calls[c].inst],
                       calls[c].argLat, calls[c].argLon,
                       calls[c].tzPromise, calls[c].tzInvoked = 1)
      indexed == IF started.pc = "done" THEN started
                 ELSE Resumed(started, promises[calls[c].tzPromise])
  IN  IF indexed.pc # "awaitGeo" THEN indexed
      ELSE IF calls[c].geoRes = << "error" >>
        THEN [indexed EXCEPT !.pc = "done", !.geoRes = << "error" >>,
                             !.ret = Throw("TransportError")]
      ELSE AfterGeo([indexed EXCEPT !.geoRes = << "bytes" >>])

\* C16: a call ends as it would have ended alone, whatever calls were in
\* flight with it on the instance at its two waits: its result, its box,
\* its node and its path are those of findImpl run on its own arguments.
C16_ConcurrentCallsIsolated ==
  \A c \in Calls : Done(c) => calls[c] = Alone(c)

\* the second call was made, waited on the same index promise and returned
\* from a geometry leaf while the first, at another leaf, still waits for
\* its bytes
C16_Witness ==
  \E c1, c2 \in Calls :
    /\ c1 < c2 /\ calls[c1].pc = "awaitGeo" /\ GeoAnswered(c2)
    /\ calls[c1].tzPromise = calls[c2].tzPromise
    /\ calls[c1].quadPos # calls[c2].quadPos
    /\ calls[c2].ret.kind = "value"

RECURSIVE InvokedUpTo(_)
InvokedUpTo(c) == IF c = 0 THEN 0 ELSE calls[c].tzInvoked + InvokedUpTo(c - 1)

\* C18: the memoized index belongs to one instance and is made on first
\* use.  The index provider is invoked by find calls only (init invokes
\* nothing); calls on two instances never wait on the same fetch; the fetch a
\* call waits on was started by a call on its own instance; and each
\* top-level find, being init().find on a new instance, starts its own.
C18_MemoOwnedByInstance ==
  /\ Len(promises) = InvokedUpTo(NumCalls)
  /\ \A c1, c2 \in Calls :
       (/\ calls[c1].tzPromise # 0 /\ calls[c2].tzPromise # 0
        /\ calls[c1].inst # calls[c2].inst)
       => calls[c1].tzPromise # calls[c2].tzPromise
  /\ \A c \in Calls :
       calls[c].tzPromise # 0
       => \E c0 \in Calls : /\ calls[c0].inst = calls[c].inst
                            /\ calls[c0].tzInvoked = 1
                            /\ calls[c0].tzPromise = calls[c].tzPromise
  /\ \A c \in Calls :
       (calls[c].inst \notin Insts /\ calls[c].tzPromise # 0)
       => calls[c].tzInvoked = 1

\* the index fetch of an instance made with init failed and the call on it
\* threw, while a top-level find started its own fetch and returned ids
C18_Witness ==
  \E c1, c2 \in Calls :
    /\ tzMode = "url"
    /\ calls[c1].inst \in Insts /\ calls[c2].inst = TopLevelInst(c2)
    /\ IndexFailed(c1) /\ calls[c1].ret = Throw("TransportError")
    /\ calls[c2].tzInvoked = 1 /\ Done(c2)
    /\ calls[c2].ret.kind = "value" /\ calls[c2].tzDataResponse # 0

\* the quadrant label of the point (lat, lon) in a box with centre
\* (midLat, midLon), a point on a midline counted to the north and the east
LabelOf(lat, lon, midLat, midLon) ==
  CASE lat >= midLat /\ lon >= midLon -> "a"
    [] lat >= midLat /\ lon <  midLon -> "b"
    [] lat <  midLat /\ lon <  midLon -> "c"
    [] lat <  midLat /\ lon >= midLon -> "d"

\* the iterations of call c's loop follow one another from the initial box
\* to the box the call ended with, along its path
StepsChained(c) ==
  /\ Len(calls[c].steps) = Len(calls[c].quadPos)
  /\ \A k \in DOMAIN calls[c].steps :
       /\ calls[c].steps[k].nextQuad = calls[c].quadPos[k]
       /\ calls[c].steps[k].box =
            IF k = 1 THEN InitialQuadData ELSE calls[c].steps[k - 1].next
       /\ k = Len(calls[c].steps) => calls[c].steps[k].next = calls[c].quadData

Ordered(box) == box.bottom <= box.top /\ box.left <= box.right

\* the box holds the point (lat, lon)
Holds(box, lat, lon) ==
  /\ box.bottom <= lat /\ lat <= box.top
  /\ box.left <= lon /\ lon <= box.right

\* box inner lies in box outer
Within(inner, outer) ==
  /\ outer.bottom <= inner.bottom /\ inner.top <= outer.top
  /\ outer.left <= inner.left /\ inner.right <= outer.right

\* C20: in every call that got as far as its wait for the index, past the
\* clamp, the clamped point is in the current box and the box only
\* shrinks: at every step the box before and the box after hold
\* the point and are in order, the box after lies in the box before, and
\* the midpoints compared with are the centre of the box before.
C20_PointStaysInShrinkingBox ==
  \A c \in Calls :
    calls[c].tzPromise # 0
    => /\ Ordered(calls[c].quadData)
       /\ Holds(calls[c].quadData, calls[c].lat, calls[c].lon)
       /\ \A k \in DOMAIN calls[c].steps :
            LET box  == calls[c].steps[k].box
                next == calls[c].steps[k].next
            IN  /\ Ordered(box) /\ Ordered(next)
                /\ Holds(box, calls[c].lat, calls[c].lon)
                /\ Holds(next, calls[c].lat, calls[c].lon)
                /\ Within(next, box)
                /\ 2 * box.midLat = box.top + box.bottom
                /\ 2 * box.midLon = box.left + box.right

\* a call for the south-west corner of the world, clamped to the corner of
\* the dataset, went down, and the box it ended with is smaller than the
\* world in both directions and has the point on its bottom edge
C20_Witness ==
  \E c \in Calls :
    /\ Descended(c) /\ calls[c].argLat = Deg(-90) /\ calls[c].argLon = Deg(-180)
    /\ calls[c].lat = -EdgeLat /\ calls[c].lon = -EdgeLon
    /\ Len(calls[c].steps) >= 1
    /\ calls[c].quadData.top < EdgeLat /\ calls[c].quadData.right < EdgeLon
    /\ calls[c].quadData.bottom = calls[c].lat

=============================================================================
